---- MODULE Spec2Model ----
(***************************************************************************)
(* Model of the Kadena RAG service: the chunker and ingestion pipeline of  *)
(* the Vectorizer, the KadenaRAG query engine, the POST /rag handler and   *)
(* startServer.                                                            *)
(*                                                                         *)
(* Strings are held run-length encoded: a string is a sequence of runs     *)
(* [c |-> character, n |-> repetitions], adjacent runs having different    *)
(* characters, so that <<[c |-> "a", n |-> 300]>> is "a" repeated 300      *)
(* times and <<>> is the empty string.  This keeps CHUNK_SIZE at the       *)
(* program's value of 500.                                                 *)
(***************************************************************************)
EXTENDS Naturals, Sequences, FiniteSets, TLC

VARIABLES
    pc,          \* where control is
    text,        \* splitIntoChunks: the argument text
    metadata,    \* splitIntoChunks: the argument metadata
    chunks,      \* splitIntoChunks: the returned chunks
    documents,   \* processDocuments: the corpus read from processed_docs.json
    check,       \* processDocuments: the result of the probe query
    batch,       \* processDocuments: the collection.add call of this run, if any
    collection,  \* the kadena_docs collection of the vector store (persistent)
    launch,      \* how many times the process has been started
    failedAt,    \* startServer: the step of this launch that threw, or "none"
    completed,   \* startServer: the steps of this launch that returned
    runLog,      \* one entry per processDocuments run that returned
    reqs         \* POST /api/rag requests of this launch

chunkVars == <<text, metadata, chunks>>
ingestVars == <<documents, check, batch>>
serverVars == <<collection, launch, failedAt, completed, runLog, reqs>>
vars == <<pc, text, metadata, chunks, documents, check, batch,
          collection, launch, failedAt, completed, runLog, reqs>>

\* a JavaScript value that is null, or an object that may have an ids array
Null == [type |-> "null"]

NoAdd == [called |-> FALSE, ids |-> <<>>, documents |-> <<>>, metadatas |-> <<>>]

NoCollection == [exists |-> FALSE, rows |-> <<>>]

\* the variables a specification of a single function leaves alone
ServerIdle ==
    /\ collection = NoCollection
    /\ launch = 0
    /\ failedAt = "none"
    /\ completed = {}
    /\ runLog = <<>>
    /\ reqs = <<>>

----------------------------------------------------------------------------
(* JavaScript strings                                                      *)

SP == " "
TAB == "\t"
NL == "\n"

\* "" is the only falsy string
Truthy(s) == s # <<>>

\* s.length
StrLen(s) ==
    LET RECURSIVE Sum(_)
        Sum(i) == IF i = 0 THEN 0 ELSE s[i].n + Sum(i - 1)
    IN Sum(Len(s))

\* s + t
Cat(s, t) ==
    IF s = <<>> THEN t
    ELSE IF t = <<>> THEN s
    ELSE IF s[Len(s)].c = t[1].c
         THEN SubSeq(s, 1, Len(s) - 1)
                \o <<[c |-> t[1].c, n |-> s[Len(s)].n + t[1].n]>>
                \o Tail(t)
         ELSE s \o t

\* the one-character string
Chr(ch) == <<[c |-> ch, n |-> 1]>>

RECURSIVE SplitFrom(_, _, _)
SplitFrom(runs, words, cur) ==
    IF runs = <<>> THEN Append(words, cur)
    ELSE LET r == Head(runs) IN
         IF r.c = SP
         THEN SplitFrom(Tail(runs),
                        Append(words, cur) \o [i \in 1..(r.n - 1) |-> <<>>],
                        <<>>)
         ELSE SplitFrom(Tail(runs), words, Append(cur, r))

\* text.split(" "): every single space separates, so k spaces in a row give
\* k - 1 empty words, and the empty text gives one empty word
SplitOnSpace(s) == SplitFrom(s, <<>>, <<>>)

RECURSIVE Join(_, _)
\* parts.join(sep)
Join(parts, sep) ==
    IF parts = <<>> THEN <<>>
    ELSE IF Len(parts) = 1 THEN parts[1]
    ELSE Cat(Cat(parts[1], sep), Join(Tail(parts), sep))

----------------------------------------------------------------------------
(* Vectorizer.splitIntoChunks                                              *)

CHUNK_SIZE == 500

\* (currentChunk + " " + word).length <= CHUNK_SIZE, without the space
WithinBudgetNoSeparator(currentChunk, word) ==
    StrLen(Cat(currentChunk, word)) <= CHUNK_SIZE

\* (currentChunk + " " + word).length <= CHUNK_SIZE
WithinBudget(currentChunk, word) ==
    StrLen(Cat(Cat(currentChunk, Chr(SP)), word)) <= CHUNK_SIZE

\* currentChunk += (currentChunk ? " " : "") + word
Accumulate(currentChunk, word) ==
    Cat(currentChunk, Cat(IF Truthy(currentChunk) THEN Chr(SP) ELSE <<>>, word))

\* if (currentChunk) chunks.push({text: currentChunk, metadata: {...metadata}})
PushChunk(acc, currentChunk, md) ==
    IF Truthy(currentChunk)
    THEN Append(acc, [text |-> currentChunk, metadata |-> md])
    ELSE acc

\* the buffer is restarted empty: the overflowing word is dropped
RestartBufferEmpty(word) == <<>>

\* currentChunk = word
RestartBuffer(word) == word

\* the final push without its guard
FinalPushUnguarded(acc, currentChunk, md) ==
    Append(acc, [text |-> currentChunk, metadata |-> md])

\* the push after the loop
FinalPush(acc, currentChunk, md) == PushChunk(acc, currentChunk, md)

RECURSIVE ChunkLoop(_, _, _, _)
\* for (const word of words) { ... }, then the final push
ChunkLoop(words, acc, currentChunk, md) ==
    IF words = <<>> THEN FinalPush(acc, currentChunk, md)
    ELSE LET word == Head(words) IN
         IF WithinBudget(currentChunk, word)
         THEN ChunkLoop(Tail(words), acc, Accumulate(currentChunk, word), md)
         ELSE ChunkLoop(Tail(words), PushChunk(acc, currentChunk, md),
                        RestartBuffer(word), md)

splitIntoChunks(txt, md) == ChunkLoop(SplitOnSpace(txt), <<>>, <<>>, md)

----------------------------------------------------------------------------
(* Inputs of the chunker                                                   *)

MaxRuns == 5

Whitespace == {SP, TAB}

InputRuns ==
    {[c |-> "a", n |-> k] : k \in {1, 249, 250, 501}}
      \cup {[c |-> "b", n |-> k] : k \in {1, 250}}
      \cup {[c |-> SP, n |-> k] : k \in {1, 2}}
      \cup {[c |-> TAB, n |-> 1]}

Texts ==
    UNION {{s \in [1..k -> InputRuns] : \A i \in 1..(k - 1) : s[i].c # s[i + 1].c}
             : k \in 0..MaxRuns}

Metadatas == {[source |-> "mining.md", title |-> "Mining"]}

ChunkInit ==
    /\ pc = "splitIntoChunks"
    /\ text \in Texts
    /\ metadata \in Metadatas
    /\ chunks = <<>>
    /\ documents = <<>>
    /\ check = Null
    /\ batch = NoAdd
    /\ ServerIdle

SplitIntoChunks ==
    /\ pc = "splitIntoChunks"
    /\ chunks' = splitIntoChunks(text, metadata)
    /\ pc' = "returned"
    /\ UNCHANGED <<text, metadata, ingestVars, serverVars>>

ChunkNext == SplitIntoChunks

SpecChunk == ChunkInit /\ [][ChunkNext]_vars

----------------------------------------------------------------------------
(* Properties of the chunker                                               *)

RECURSIVE WordsFrom(_, _, _)
WordsFrom(runs, words, cur) ==
    IF runs = <<>> THEN (IF cur = <<>> THEN words ELSE Append(words, cur))
    ELSE LET r == Head(runs) IN
         IF r.c \in Whitespace
         THEN WordsFrom(Tail(runs),
                        IF cur = <<>> THEN words ELSE Append(words, cur), <<>>)
         ELSE WordsFrom(Tail(runs), words, Append(cur, r))

\* the non-empty whitespace-delimited words of s, in order
WordsOf(s) == WordsFrom(s, <<>>, <<>>)

RECURSIVE Flatten(_)
Flatten(ss) == IF ss = <<>> THEN <<>> ELSE Head(ss) \o Flatten(Tail(ss))

ChunkTexts == [i \in 1..Len(chunks) |-> chunks[i].text]

\* the non-empty space-delimited words of s: what split(" ") gives, less the
\* empty strings
SpaceWordsOf(s) == SelectSeq(SplitOnSpace(s), Truthy)

Occurrences(seq, x) == Cardinality({i \in 1..Len(seq) : seq[i] = x})

\* C3: the chunk texts joined by single spaces have exactly the input's
\* non-empty whitespace-delimited words, in order, and every word lies
\* whole inside one chunk (the chunks' own words, chunk after chunk, are the
\* input's words).
C3_WordsPreserved ==
    pc = "returned" =>
        /\ WordsOf(Join(ChunkTexts, Chr(SP))) = WordsOf(text)
        /\ Flatten([i \in 1..Len(chunks) |-> WordsOf(chunks[i].text)]) = WordsOf(text)

C3_Witness ==
    /\ pc = "returned"
    /\ Len(chunks) >= 2
    /\ Len(WordsOf(text)) >= 3
    /\ \E i \in 1..Len(text) : text[i].c = TAB
    /\ \E i \in 1..Len(text) : text[i].c = SP /\ text[i].n = 2

C10_EmptyIffNoWord ==
    pc = "returned" =>
        /\ (chunks = <<>>) <=> (SpaceWordsOf(text) = <<>>)
        /\ \A i \in 1..Len(chunks) : chunks[i].text # <<>>

C10_Witness ==
    /\ pc = "returned"
    /\ chunks = <<>>
    /\ text # <<>>

----------------------------------------------------------------------------
(* Vectorizer.processDocuments                                             *)

Digit == <<"0", "1", "2", "3", "4", "5", "6", "7", "8", "9">>

RECURSIVE DecStr(_)
\* `${n}` for a non-negative integer n
DecStr(n) ==
    IF n < 10 THEN Digit[n + 1]
    ELSE DecStr(n \div 10) \o Digit[(n % 10) + 1]

\* the id without the document index
ChunkIdOfChunkOnly(docIndex, chunkIndex) == DecStr(chunkIndex)

\* `${docIndex}-${chunkIndex}`
ChunkId(docIndex, chunkIndex) == DecStr(docIndex) \o "-" \o DecStr(chunkIndex)

\* the guard that never finds the corpus ingested
ProbeFoundNever(chk) == FALSE

\* check && check.ids && check.ids.length > 0   (an array is truthy)
ProbeFound(chk) ==
    /\ chk.type = "object"
    /\ "ids" \in DOMAIN chk
    /\ Len(chk.ids) > 0

\* the chunks of one document: splitIntoChunks(doc.content, {source, title})
DocChunks(doc) ==
    splitIntoChunks(doc.content, [source |-> doc.source, title |-> doc.title])

RECURSIVE BatchFrom(_, _, _)
\* documents.forEach((doc, docIndex) => chunks.forEach((chunk, chunkIndex) => ...))
BatchFrom(docs, docIndex, acc) ==
    IF docIndex >= Len(docs) THEN acc
    ELSE LET cs == DocChunks(docs[docIndex + 1]) IN
         BatchFrom(docs, docIndex + 1,
            [ids       |-> acc.ids \o
                             [c \in 1..Len(cs) |-> ChunkId(docIndex, c - 1)],
             documents |-> acc.documents \o [c \in 1..Len(cs) |-> cs[c].text],
             metadatas |-> acc.metadatas \o [c \in 1..Len(cs) |-> cs[c].metadata]])

\* the arguments of collection.add
BuildBatch(docs) ==
    BatchFrom(docs, 0, [ids |-> <<>>, documents |-> <<>>, metadatas |-> <<>>])

\* what a run that gets past the probe hands to collection.add
AddCall(docs) ==
    LET b == BuildBatch(docs) IN
    [called |-> TRUE, ids |-> b.ids, documents |-> b.documents,
     metadatas |-> b.metadatas]

----------------------------------------------------------------------------
(* Inputs of the ingestion                                                 *)

MaxDocs == 2

Str(ch, k) == <<[c |-> ch, n |-> k]>>

\* eleven words, each on its own over the budget: chunk indices 0 .. 10
ElevenLongWords ==
    Join([i \in 1..11 |-> Str(IF i % 2 = 1 THEN "a" ELSE "b", 501)], Chr(SP))

DocMining ==
    [content |-> Cat(Cat(Str("a", 250), Chr(SP)), Str("b", 250)),
     source |-> "mining.md", title |-> "Mining"]
DocIntro == [content |-> Str("a", 1), source |-> "intro.md", title |-> "Intro"]
DocEmpty == [content |-> <<>>, source |-> "empty.md", title |-> "Empty"]
DocLong == [content |-> ElevenLongWords, source |-> "long.md", title |-> "Long"]

IngestDocs == {DocMining, DocIntro, DocEmpty, DocLong}

IngestCorpora == UNION {[1..k -> IngestDocs] : k \in 0..MaxDocs}

\* the values the guard of processDocuments tells apart
ProbeShapes ==
    {Null,
     [type |-> "object"],
     [type |-> "object", ids |-> <<>>],
     [type |-> "object", ids |-> <<<<>>>>],
     [type |-> "object", ids |-> <<<<"0-0">>>>]}

IngestInit ==
    /\ pc = "processDocuments"
    /\ documents \in IngestCorpora
    /\ check \in ProbeShapes
    /\ batch = NoAdd
    /\ text = <<>>
    /\ metadata = [source |-> "", title |-> ""]
    /\ chunks = <<>>
    /\ ServerIdle

\* processDocuments from the probe's result on, the corpus readable and the
\* store accepting the batch
IngestAfterProbe ==
    /\ pc = "processDocuments"
    /\ batch' = IF ProbeFound(check) THEN NoAdd ELSE AddCall(documents)
    /\ pc' = IF ProbeFound(check) THEN "skipped" ELSE "added"
    /\ UNCHANGED <<chunkVars, documents, check, serverVars>>

IngestNext == IngestAfterProbe

SpecIngest == IngestInit /\ [][IngestNext]_vars

----------------------------------------------------------------------------
(* Properties of the ingestion                                             *)

\* the number of chunks of document d (counted from 0)
ChunkCount(d) == Len(DocChunks(documents[d + 1]))

RECURSIVE ChunksBefore(_)
ChunksBefore(d) == IF d = 0 THEN 0 ELSE ChunkCount(d - 1) + ChunksBefore(d - 1)

\* the text "d-c"
FormDC(d, c) == ToString(d) \o "-" \o ToString(c)

\* C5: in a run that is not skipped the ids handed to collection.add are
\* pairwise distinct, as many as the chunks of all documents, each "d-c"
\* with 0 <= d < D and 0 <= c < C_d, and the id "d-c" stands at the position
\* of the text and metadata of chunk c of document d.
C5_IdsOfBatch ==
    pc = "added" =>
        /\ batch.called
        /\ Len(batch.ids) = ChunksBefore(Len(documents))
        /\ Len(batch.documents) = Len(batch.ids)
        /\ Len(batch.metadatas) = Len(batch.ids)
        /\ \A i, j \in 1..Len(batch.ids) : i # j => batch.ids[i] # batch.ids[j]
        /\ \A i \in 1..Len(batch.ids) :
              \E d \in 0..(Len(documents) - 1) :
                 \E c \in 0..(ChunkCount(d) - 1) : batch.ids[i] = FormDC(d, c)
        /\ \A d \in 0..(Len(documents) - 1) :
              \A c \in 0..(ChunkCount(d) - 1) :
                 LET i == ChunksBefore(d) + c + 1
                     chunk == DocChunks(documents[d + 1])[c + 1]
                 IN /\ batch.ids[i] = FormDC(d, c)
                    /\ batch.documents[i] = chunk.text
                    /\ batch.metadatas[i] =
                          [source |-> documents[d + 1].source,
                           title |-> documents[d + 1].title]

C5_Witness ==
    /\ pc = "added"
    /\ Len(documents) = 2
    /\ ChunkCount(0) = 2
    /\ ChunkCount(1) = 11
    /\ batch.ids[13] = "1-10"

----------------------------------------------------------------------------
(* The kadena_docs collection as the program uses it                       *)

Min(a, b) == IF a <= b THEN a ELSE b

Reverse(seq) == [i \in 1..Len(seq) |-> seq[Len(seq) + 1 - i]]

\* the records a batch holds
RowsOf(b) ==
    [i \in 1..Len(b.ids) |->
        [id |-> b.ids[i], document |-> b.documents[i], metadata |-> b.metadatas[i]]]

\* the similarity order of the records for a query text: the embedding
\* decides it, here the question "q2" ranks the records the other way round
Ranked(rows, queryText) == IF queryText = "q2" THEN Reverse(rows) ELSE rows

\* collection.query({queryTexts: [queryText], nResults}): one inner list per
\* query text, the best min(nResults, size) records in rank order
CollectionQuery(rows, queryText, nResults) ==
    LET top == SubSeq(Ranked(rows, queryText), 1, Min(nResults, Len(rows))) IN
    [type      |-> "object",
     ids       |-> <<[i \in 1..Len(top) |-> top[i].id]>>,
     documents |-> <<[i \in 1..Len(top) |-> top[i].document]>>,
     metadatas |-> <<[i \in 1..Len(top) |-> top[i].metadata]>>]

\* collection.add({ids, documents, metadatas}): the records of new ids are
\* appended
CollectionAdd(rows, b) ==
    rows \o SelectSeq(RowsOf(b),
                      LAMBDA row : \A i \in 1..Len(rows) : rows[i].id # row.id)

----------------------------------------------------------------------------
(* KadenaRAG.query and the POST /rag handler                               *)

Undefined == [t |-> "undefined"]
JsString(v) == [t |-> "string", v |-> v]
JsNumber(v) == [t |-> "number", v |-> v]

\* !v
Falsy(v) == v.t = "undefined" \/ (v.t = "string" /\ v.v = "")

DefaultNumResults == 5

\* { question, numResults = 5 } = req.body
NumResultsOf(body) ==
    IF body.numResults.t = "undefined" THEN DefaultNumResults ELSE body.numResults.v

\* the handler without its validation
QuestionMissingNever(question) == FALSE

\* if (!question)
QuestionMissing(question) == Falsy(question)

BlankLine == <<[c |-> NL, n |-> 2]>>

\* results.documents[0].join("\n\n")
ContextOf(results) == Join(results.documents[1], BlankLine)

RECURSIVE Dedup(_, _)
Dedup(seq, seen) ==
    IF seq = <<>> THEN <<>>
    ELSE IF Head(seq) \in seen THEN Dedup(Tail(seq), seen)
    ELSE <<Head(seq)>> \o Dedup(Tail(seq), seen \cup {Head(seq)})

\* the sources with repeated entries removed
SourcesDeduplicated(results) ==
    Dedup([i \in 1..Len(results.metadatas[1]) |->
              [title  |-> results.metadatas[1][i].title,
               source |-> results.metadatas[1][i].source]], {})

\* results.metadatas[0].map((meta) => ({title: meta.title, source: meta.source}))
SourcesOf(results) ==
    [i \in 1..Len(results.metadatas[1]) |->
        [title  |-> results.metadatas[1][i].title,
         source |-> results.metadatas[1][i].source]]

NoResults == CollectionQuery(<<>>, "", 0)

IdleReq ==
    [st |-> "none", question |-> Undefined, numResults |-> 0,
     queryCalls |-> 0, completionCalls |-> 0, retrieved |-> FALSE,
     results |-> NoResults, context |-> <<>>, failed |-> "none",
     status |-> 0, answer |-> "", sources |-> <<>>, after500 |-> FALSE]

\* res.status(400).json({error: 'Question is required'})
Respond400(req) == [req EXCEPT !.st = "responded", !.status = 400]

\* a failed call is made again instead of being surfaced
RetryCall(req, call) ==
    IF call = "query"
    THEN [req EXCEPT !.queryCalls = @ + 1]
    ELSE [req EXCEPT !.completionCalls = @ + 1]

\* the catch blocks down to res.status(500).json({error, details})
Respond500(req, call) ==
    [req EXCEPT !.st = "responded", !.status = 500, !.failed = call]

\* res.json({question, answer, sources})
Respond200(req, text200) ==
    [req EXCEPT !.st = "responded", !.status = 200, !.answer = text200,
                !.sources = SourcesOf(req.results)]

----------------------------------------------------------------------------
(* startServer                                                             *)

MaxLaunches == 2
MaxRequests == 2

\* the failure is logged and the server goes on to listen
AfterFailureListens == "listening"

\* catch (error) { ...; process.exit(1) }
AfterFailure == "exited"

ServerCorpora == {<<DocMining, DocIntro>>, <<DocIntro>>}

Bodies ==
    {[question |-> Undefined, numResults |-> Undefined],
     [question |-> JsString(""), numResults |-> Undefined],
     [question |-> JsString("q1"), numResults |-> Undefined],
     [question |-> JsString("q2"), numResults |-> JsNumber(2)]}

Init ==
    /\ pc = "startServer"
    /\ documents \in ServerCorpora
    /\ collection \in {NoCollection,
                       [exists |-> TRUE, rows |-> <<>>],
                       [exists |-> TRUE, rows |-> RowsOf(AddCall(documents))]}
    /\ launch = 1
    /\ failedAt = "none"
    /\ completed = {}
    /\ runLog = <<>>
    /\ reqs = [r \in 1..MaxRequests |-> IdleReq]
    /\ check = Null
    /\ batch = NoAdd
    /\ text = <<>>
    /\ metadata = [source |-> "", title |-> ""]
    /\ chunks = <<>>

\* Vectorizer.initialize: getCollection returns an existing collection; when
\* it throws, createCollection makes the collection if there is none; when
\* that throws too the error is rethrown
VectorizerInitialize ==
    /\ pc = "startServer"
    /\ \E getOk, createOk \in BOOLEAN :
          IF (getOk /\ collection.exists) \/ (createOk /\ ~collection.exists)
          THEN /\ collection' = [collection EXCEPT !.exists = TRUE]
               /\ pc' = "initialized"
               /\ completed' = completed \cup {"vectorizer.initialize"}
               /\ UNCHANGED failedAt
          ELSE /\ failedAt' = "vectorizer.initialize"
               /\ pc' = AfterFailure
               /\ UNCHANGED <<collection, completed>>
    /\ UNCHANGED <<chunkVars, ingestVars, launch, runLog, reqs>>

\* Vectorizer.processDocuments, called by KadenaRAG.initialize
ProcessDocuments ==
    /\ pc = "initialized"
    /\ \E probeOk, readOk, addOk \in BOOLEAN :
          LET chk == CollectionQuery(collection.rows, " ", 1)
              b == AddCall(documents)
              after == CollectionAdd(collection.rows, b)
          IN IF ~probeOk
             THEN /\ failedAt' = "processDocuments"
                  /\ pc' = AfterFailure
                  /\ UNCHANGED <<check, batch, collection, completed, runLog>>
             ELSE IF ProbeFound(chk)
             THEN /\ check' = chk
                  /\ batch' = NoAdd
                  /\ pc' = "processed"
                  /\ runLog' = Append(runLog,
                        [before |-> Len(collection.rows), addCalls |-> 0,
                         after |-> Len(collection.rows)])
                  /\ completed' = completed \cup {"processDocuments"}
                  /\ UNCHANGED <<collection, failedAt>>
             ELSE IF ~readOk \/ ~addOk
             THEN /\ check' = chk
                  /\ batch' = IF readOk THEN b ELSE NoAdd
                  /\ failedAt' = "processDocuments"
                  /\ pc' = AfterFailure
                  /\ UNCHANGED <<collection, completed, runLog>>
             ELSE /\ check' = chk
                  /\ batch' = b
                  /\ collection' = [collection EXCEPT !.rows = after]
                  /\ pc' = "processed"
                  /\ runLog' = Append(runLog,
                        [before |-> Len(collection.rows), addCalls |-> 1,
                         after |-> Len(after)])
                  /\ completed' = completed \cup {"processDocuments"}
                  /\ UNCHANGED failedAt
    /\ UNCHANGED <<chunkVars, documents, launch, reqs>>

\* import('./api/rag.js'), app.use('/api', router), app.listen(PORT)
MountAndListen ==
    /\ pc = "processed"
    /\ \E importOk \in BOOLEAN :
          IF importOk
          THEN pc' = "listening" /\ UNCHANGED failedAt
          ELSE failedAt' = "import" /\ pc' = AfterFailure
    /\ UNCHANGED <<chunkVars, ingestVars, collection, launch, completed, runLog, reqs>>

\* the process is started again; the collection is what the store kept
Relaunch ==
    /\ pc \in {"exited", "listening"}
    /\ launch < MaxLaunches
    /\ launch' = launch + 1
    /\ pc' = "startServer"
    /\ failedAt' = "none"
    /\ completed' = {}
    /\ reqs' = [r \in 1..MaxRequests |-> IdleReq]
    /\ check' = Null
    /\ batch' = NoAdd
    /\ UNCHANGED <<chunkVars, documents, collection, runLog>>

\* router.post('/rag'): the handler up to its first await
PostRag(r) ==
    /\ pc = "listening"
    /\ reqs[r].st = "none"
    /\ r > 1 => reqs[r - 1].st # "none"
    /\ \E body \in Bodies :
          LET arrived == [reqs[r] EXCEPT
                            !.question = body.question,
                            !.after500 = \E q \in 1..MaxRequests : reqs[q].status = 500]
          IN reqs' = [reqs EXCEPT ![r] =
                IF QuestionMissing(body.question)
                THEN Respond400(arrived)
                ELSE [arrived EXCEPT !.st = "awaitQuery",
                                     !.numResults = NumResultsOf(body),
                                     !.queryCalls = @ + 1]]
    /\ UNCHANGED <<pc, chunkVars, ingestVars, collection, launch, failedAt, completed, runLog>>

\* vectorizer.query settles: KadenaRAG.query goes on to the completion
QueryReturns(r) ==
    /\ reqs[r].st = "awaitQuery"
    /\ \E ok \in BOOLEAN :
          reqs' = [reqs EXCEPT ![r] =
             IF ~ok THEN Respond500(@, "query")
             ELSE LET results == CollectionQuery(collection.rows,
                                    IF @.question.t = "string" THEN @.question.v ELSE "",
                                    @.numResults)
                  IN [@ EXCEPT !.st = "awaitCompletion",
                               !.retrieved = TRUE,
                               !.results = results,
                               !.context = ContextOf(results),
                               !.completionCalls = @ + 1]]
    /\ UNCHANGED <<pc, chunkVars, ingestVars, collection, launch, failedAt, completed, runLog>>

\* openai.chat.completions.create settles: the handler responds
CompletionReturns(r) ==
    /\ reqs[r].st = "awaitCompletion"
    /\ \E ok \in BOOLEAN :
          reqs' = [reqs EXCEPT ![r] =
             IF ~ok THEN Respond500(@, "completion")
             ELSE Respond200(@, "answer")]
    /\ UNCHANGED <<pc, chunkVars, ingestVars, collection, launch, failedAt, completed, runLog>>

Next ==
    \/ VectorizerInitialize
    \/ ProcessDocuments
    \/ MountAndListen
    \/ Relaunch
    \/ \E r \in 1..MaxRequests : PostRag(r) \/ QueryReturns(r) \/ CompletionReturns(r)

Spec == Init /\ [][Next]_vars

----------------------------------------------------------------------------
(* Properties of the service                                               *)

\* processDocuments has returned in this launch
Ingested == "processDocuments" \in completed

\* every chunk of the corpus, as records of the collection
CorpusRows == RowsOf(AddCall(documents))

\* C1: a returned run of processDocuments skipped collection.add exactly
\* when the probe returned an id: over a collection without records the
\* probe returns no id and collection.add is called with every chunk of the
\* corpus, over a collection with a record collection.add is not called.
C1_ProbeGatesInsertion ==
    Ingested =>
        LET run == runLog[Len(runLog)] IN
        /\ ~batch.called <=> Len(check.ids[1]) > 0
        /\ run.before = 0 =>
              /\ Len(check.ids[1]) = 0
              /\ batch.called
              /\ RowsOf(batch) = CorpusRows
        /\ run.before > 0 => ~batch.called

\* C2: from an empty collection and a corpus with chunks, every run of
\* processDocuments after the first makes no collection.add call and leaves
\* the collection with as many records as the first run left.
C2_IngestionIdempotent ==
    (Len(runLog) >= 2 /\ runLog[1].before = 0 /\ CorpusRows # <<>>) =>
        \A i \in 2..Len(runLog) :
            /\ runLog[i].addCalls = 0
            /\ runLog[i].after = runLog[1].after

C2_Witness ==
    /\ Len(runLog) = 2
    /\ runLog[1].before = 0
    /\ Len(CorpusRows) = 3
    /\ Ingested

\* a body carries a question when its question is a non-empty string
HasQuestion(req) == req.question.t = "string" /\ req.question.v # ""

Handled == {r \in 1..MaxRequests : reqs[r].st # "none"}

\* C6: a request without a question is answered 400 with neither the
\* vector-store query nor the completion invoked for it; a request with a
\* question is never answered 400.
C6_MissingQuestionRejected ==
    \A r \in Handled :
        IF HasQuestion(reqs[r])
        THEN reqs[r].status # 400
        ELSE /\ reqs[r].st = "responded"
             /\ reqs[r].status = 400
             /\ reqs[r].queryCalls = 0
             /\ reqs[r].completionCalls = 0

C6_Witness ==
    /\ reqs[1].st = "responded" /\ reqs[1].question = Undefined
    /\ reqs[1].status = 400
    /\ reqs[2].status = 200

\* C7: the server listens, and a request is handled, only in a launch whose
\* vectorizer.initialize and processDocuments have both returned and in
\* which nothing threw; a launch in which a step threw has exited and
\* handles no request; and a request finds the collection empty or holding
\* the whole corpus, never a part of it.
C7_IngestionGatesServing ==
    /\ (pc = "listening" \/ Handled # {}) =>
          /\ pc = "listening"
          /\ {"vectorizer.initialize", "processDocuments"} \subseteq completed
          /\ failedAt = "none"
          /\ collection.rows \in {<<>>, CorpusRows}
    /\ failedAt # "none" => pc = "exited" /\ Handled = {}

C7_Witness ==
    /\ launch = 2
    /\ Len(runLog) = 1
    /\ \E r \in Handled : reqs[r].status = 200 /\ Len(reqs[r].sources) = 3

RECURSIVE BlankLineSeparated(_, _)
\* the first k texts, a blank line between neighbours
BlankLineSeparated(texts, k) ==
    IF k = 0 THEN <<>>
    ELSE IF k = 1 THEN texts[1]
    ELSE Cat(BlankLineSeparated(texts, k - 1), Cat(BlankLine, texts[k]))

\* C8: a request answered 200 carries one source per retrieved chunk, the
\* i-th being the title and source of the i-th retrieved chunk's metadata,
\* and the context given to the model was the retrieved texts in rank order
\* with a blank line between them; the retrieved chunks are the best
\* records of the collection in rank order.
C8_SourcesFollowRank ==
    \A r \in Handled :
        reqs[r].status = 200 =>
            LET docs == reqs[r].results.documents[1]
                metas == reqs[r].results.metadatas[1]
                ranked == Ranked(collection.rows, reqs[r].question.v)
            IN /\ Len(docs) = Min(reqs[r].numResults, Len(collection.rows))
               /\ Len(metas) = Len(docs)
               /\ \A i \in 1..Len(docs) :
                     docs[i] = ranked[i].document /\ metas[i] = ranked[i].metadata
               /\ Len(reqs[r].sources) = Len(docs)
               /\ \A i \in 1..Len(docs) :
                     /\ reqs[r].sources[i].title = metas[i].title
                     /\ reqs[r].sources[i].source = metas[i].source
                     /\ DOMAIN reqs[r].sources[i] = {"title", "source"}
               /\ reqs[r].context = BlankLineSeparated(docs, Len(docs))

C8_Witness ==
    \E r \in Handled :
        /\ reqs[r].status = 200
        /\ Len(reqs[r].sources) = 3
        /\ reqs[r].sources[1] = reqs[r].sources[2]
        /\ reqs[r].sources[3] = [title |-> "Intro", source |-> "intro.md"]
        /\ StrLen(reqs[r].context) = 250 + 2 + 250 + 2 + 1

\* C9: for a request with a question the vector-store query is invoked
\* exactly once; the completion is invoked at most once, and exactly once as
\* soon as the query has returned (also with no chunk retrieved, the context
\* then being empty) and never before; a failed call is not made again and
\* is answered 500, and only a failed call is; the process keeps listening.
C9_CallsPerRequest ==
    \A r \in Handled :
        HasQuestion(reqs[r]) =>
            /\ reqs[r].queryCalls = 1
            /\ reqs[r].completionCalls = (IF reqs[r].retrieved THEN 1 ELSE 0)
            /\ reqs[r].st = "awaitQuery" => ~reqs[r].retrieved
            /\ reqs[r].failed = "query" => ~reqs[r].retrieved
            /\ reqs[r].failed = "completion" => reqs[r].retrieved
            /\ reqs[r].failed # "none" <=> reqs[r].status = 500
            /\ reqs[r].failed # "none" => reqs[r].st = "responded"
            /\ (reqs[r].retrieved /\ reqs[r].results.documents[1] = <<>>) =>
                  reqs[r].context = <<>>
            /\ pc = "listening"

C9_Witness ==
    /\ reqs[1].status = 500 /\ reqs[1].failed = "query"
    /\ reqs[2].after500
    /\ reqs[2].status = 200
    /\ reqs[2].results.documents[1] = <<>>
    /\ reqs[2].completionCalls = 1

====
